---- MODULE Spec2Model ----
(***************************************************************************)
(* Model of fetch_members.py: the paginated fetch of the member roster     *)
(* (get_congress_members), the normalisation of raw member records         *)
(* (process_members_data) and the driver that writes the snapshot files    *)
(* (main).                                                                 *)
(*                                                                         *)
(* Python values are tagged records:                                       *)
(*   [t |-> "null"]            None / JSON null                            *)
(*   [t |-> "bool", b |-> _]   True / False                                *)
(*   [t |-> "int",  i |-> _]   int                                         *)
(*   [t |-> "float", f |-> _]  float, carried as its decimal literal       *)
(*   [t |-> "str",  s |-> _]   str, a sequence of one-character strings    *)
(*   [t |-> "list", l |-> _]   list                                        *)
(*   [t |-> "dict", d |-> _]   dict, its items <<key, value>> in insertion *)
(*                             order, a key being the characters of a str  *)
(*                                                                         *)
(* The keys of a dict are distinct. Python compares dicts regardless of     *)
(* the order of their items; the program compares no two dicts.            *)
(*                                                                         *)
(* Strings range over the ASCII characters a string literal can spell      *)
(* (the printable ones and \t, \n, \f, \r); integers are those TLC holds,  *)
(* of magnitude below 2^31.                                                *)
(* A float is an IEEE 754 double: a literal is rounded to the nearest      *)
(* double, to inf past the largest one and to zero under the smallest.     *)
(***************************************************************************)
EXTENDS Integers, Sequences, FiniteSets, TLC

VARIABLES
    pc,           \* position of main: "main", "fetch", "returned", "done", "crashed"
    api_key,      \* os.getenv('CONGRESS_GOV_API_KEY'): None when unset, else a str
    source,       \* the upstream roster: [kind |-> "any"] or [kind |-> "offset", total |-> n]
    offset,       \* get_congress_members: offset
    all_members,  \* get_congress_members: all_members
    requests,     \* the offsets of the HTTP GET requests issued so far, in order
    served,       \* per request, in order: whether it failed, the number of records
                  \* answered and whether the answer carried pagination metadata
    response,     \* the answer to the latest request
    raw_data,     \* main: raw_data, the value get_congress_members returned
    processed,    \* main: processed_data, the outcome of process_members_data
    files,        \* the output files written by this run
    out,          \* the final status line main printed
    exc           \* the exception that ended the run, "" when none

vars == <<pc, api_key, source, offset, all_members, requests, served, response,
          raw_data, processed, files, out, exc>>

----------------------------------------------------------------------------
(* Python values *)

None == [t |-> "null"]
PyBool(b) == [t |-> "bool", b |-> b]
PyInt(n) == [t |-> "int", i |-> n]
PyFloat(lit) == [t |-> "float", f |-> lit]
PyStr(chars) == [t |-> "str", s |-> chars]
PyList(items) == [t |-> "list", l |-> items]
PyDict(items) == [t |-> "dict", d |-> items]
EmptyDict == PyDict(<<>>)
EmptyStr == PyStr(<<>>)

\* The outcome of evaluating Python code: a value, or an uncaught exception.
Ok(v) == [ok |-> TRUE, val |-> v]
Raise(e) == [ok |-> FALSE, exc |-> e]

----------------------------------------------------------------------------
(* str methods *)

\* The characters str.strip() and float() drop, among those a string of this
\* module can hold.
Whitespace == {" ", "\t", "\n", "\r", "\f"}

RECURSIVE LStrip(_)
LStrip(s) == IF Len(s) > 0 /\ Head(s) \in Whitespace THEN LStrip(Tail(s)) ELSE s

RECURSIVE RStrip(_)
RStrip(s) ==
    IF Len(s) > 0 /\ s[Len(s)] \in Whitespace THEN RStrip(SubSeq(s, 1, Len(s) - 1)) ELSE s

\* str.strip()
Strip(s) == RStrip(LStrip(s))

\* The index of the first occurrence of character c in s, 0 when there is none.
RECURSIVE FindFrom(_, _, _)
FindFrom(s, c, i) ==
    IF i > Len(s) THEN 0 ELSE IF s[i] = c THEN i ELSE FindFrom(s, c, i + 1)

Find(s, c) == FindFrom(s, c, 1)

\* str.split(c): the pieces between every occurrence of c.
RECURSIVE Split(_, _)
Split(s, c) ==
    LET i == Find(s, c)
    IN IF i = 0 THEN <<s>>
       ELSE <<SubSeq(s, 1, i - 1)>> \o Split(SubSeq(s, i + 1, Len(s)), c)

\* `sub in s` for strings
Contains(s, sub) ==
    \E i \in 1..(Len(s) - Len(sub) + 1) : SubSeq(s, i, i + Len(sub) - 1) = sub

----------------------------------------------------------------------------
(* float(x) and int(float(x)) *)

Digits == {"0", "1", "2", "3", "4", "5", "6", "7", "8", "9"}

DigitVal(c) ==
    CASE c = "0" -> 0 [] c = "1" -> 1 [] c = "2" -> 2 [] c = "3" -> 3 [] c = "4" -> 4
      [] c = "5" -> 5 [] c = "6" -> 6 [] c = "7" -> 7 [] c = "8" -> 8 [] c = "9" -> 9

\* A digit part of a float literal: digits, with single underscores allowed
\* between two digits.
AllDigits(s) ==
    /\ \A i \in 1..Len(s) : s[i] \in Digits \cup {"_"}
    /\ \A i \in 1..Len(s) :
          s[i] = "_" => i > 1 /\ i < Len(s) /\ s[i - 1] \in Digits /\ s[i + 1] \in Digits

IsDigit(c) == c \in Digits

\* The digits of a digit part, its underscores dropped.
DigitsOf(s) == SelectSeq(s, IsDigit)

RECURSIVE DigitsToNat(_)
DigitsToNat(s) ==
    IF Len(s) = 0 THEN 0
    ELSE 10 * DigitsToNat(SubSeq(s, 1, Len(s) - 1)) + DigitVal(s[Len(s)])

LowerChar(c) ==
    CASE c = "I" -> "i" [] c = "N" -> "n" [] c = "F" -> "f" [] c = "A" -> "a"
      [] c = "T" -> "t" [] c = "Y" -> "y" [] OTHER -> c

Lower(s) == [i \in 1..Len(s) |-> LowerChar(s[i])]

RECURSIVE StripZeros(_)
StripZeros(s) == IF Len(s) > 0 /\ Head(s) = "0" THEN StripZeros(Tail(s)) ELSE s

\* The i-th digit of the fraction 0.a, a a digit string
DigitAt(a, i) == IF i <= Len(a) THEN DigitVal(a[i]) ELSE 0

\* 0.a >= 0.b: wherever a has the smaller digit, an earlier digit differs
DigitsGeq(a, b) ==
    \A i \in 1..(Len(a) + Len(b)) :
        DigitAt(a, i) < DigitAt(b, i) => \E j \in 1..(i - 1) : DigitAt(a, j) # DigitAt(b, j)

\* A Python float is an IEEE 754 double. The decimal digits of 2^1024 - 2^970,
\* halfway between the largest double and 2^1024: a literal of at least this
\* magnitude (0.digits * 10^309) rounds to inf.
HalfToInfinity ==
    <<"1", "7", "9", "7", "6", "9", "3", "1", "3", "4", "8", "6", "2", "3", "1", "5",
      "8", "0", "7", "9", "3", "7", "2", "8", "9", "7", "1", "4", "0", "5", "3", "0",
      "3", "4", "1", "5", "0", "7", "9", "9", "3", "4", "1", "3", "2", "7", "1", "0",
      "0", "3", "7", "8", "2", "6", "9", "3", "6", "1", "7", "3", "7", "7", "8", "9",
      "8", "0", "4", "4", "4", "9", "6", "8", "2", "9", "2", "7", "6", "4", "7", "5",
      "0", "9", "4", "6", "6", "4", "9", "0", "1", "7", "9", "7", "7", "5", "8", "7",
      "2", "0", "7", "0", "9", "6", "3", "3", "0", "2", "8", "6", "4", "1", "6", "6",
      "9", "2", "8", "8", "7", "9", "1", "0", "9", "4", "6", "5", "5", "5", "5", "4",
      "7", "8", "5", "1", "9", "4", "0", "4", "0", "2", "6", "3", "0", "6", "5", "7",
      "4", "8", "8", "6", "7", "1", "5", "0", "5", "8", "2", "0", "6", "8", "1", "9",
      "0", "8", "9", "0", "2", "0", "0", "0", "7", "0", "8", "3", "8", "3", "6", "7",
      "6", "2", "7", "3", "8", "5", "4", "8", "4", "5", "8", "1", "7", "7", "1", "1",
      "5", "3", "1", "7", "6", "4", "4", "7", "5", "7", "3", "0", "2", "7", "0", "0",
      "6", "9", "8", "5", "5", "5", "7", "1", "3", "6", "6", "9", "5", "9", "6", "2",
      "2", "8", "4", "2", "9", "1", "4", "8", "1", "9", "8", "6", "0", "8", "3", "4",
      "9", "3", "6", "4", "7", "5", "2", "9", "2", "7", "1", "9", "0", "7", "4", "1",
      "6", "8", "4", "4", "4", "3", "6", "5", "5", "1", "0", "7", "0", "4", "3", "4",
      "2", "7", "1", "1", "5", "5", "9", "6", "9", "9", "5", "0", "8", "0", "9", "3",
      "0", "4", "2", "8", "8", "0", "1", "7", "7", "9", "0", "4", "1", "7", "4", "4",
      "9", "7", "7", "9", "2">>

\* The decimal digits of 2^-1075, half of the smallest positive double: a
\* literal of at most this magnitude (0.digits * 10^-323) rounds to 0.0.
HalfToZero ==
    <<"2", "4", "7", "0", "3", "2", "8", "2", "2", "9", "2", "0", "6", "2", "3", "2",
      "7", "2", "0", "8", "8", "2", "8", "4", "3", "9", "6", "4", "3", "4", "1", "1",
      "0", "6", "8", "6", "1", "8", "2", "5", "2", "9", "9", "0", "1", "3", "0", "7",
      "1", "6", "2", "3", "8", "2", "2", "1", "2", "7", "9", "2", "8", "4", "1", "2",
      "5", "0", "3", "3", "7", "7", "5", "3", "6", "3", "5", "1", "0", "4", "3", "7",
      "5", "9", "3", "2", "6", "4", "9", "9", "1", "8", "1", "8", "0", "8", "1", "7",
      "9", "9", "6", "1", "8", "9", "8", "9", "8", "2", "8", "2", "3", "4", "7", "7",
      "2", "2", "8", "5", "8", "8", "6", "5", "4", "6", "3", "3", "2", "8", "3", "5",
      "5", "1", "7", "7", "9", "6", "9", "8", "9", "8", "1", "9", "9", "3", "8", "7",
      "3", "9", "8", "0", "0", "5", "3", "9", "0", "9", "3", "9", "0", "6", "3", "1",
      "5", "0", "3", "5", "6", "5", "9", "5", "1", "5", "5", "7", "0", "2", "2", "6",
      "3", "9", "2", "2", "9", "0", "8", "5", "8", "3", "9", "2", "4", "4", "9", "1",
      "0", "5", "1", "8", "4", "4", "3", "5", "9", "3", "1", "8", "0", "2", "8", "4",
      "9", "9", "3", "6", "5", "3", "6", "1", "5", "2", "5", "0", "0", "3", "1", "9",
      "3", "7", "0", "4", "5", "7", "6", "7", "8", "2", "4", "9", "2", "1", "9", "3",
      "6", "5", "6", "2", "3", "6", "6", "9", "8", "6", "3", "6", "5", "8", "4", "8",
      "0", "7", "5", "7", "0", "0", "1", "5", "8", "5", "7", "6", "9", "2", "6", "9",
      "9", "0", "3", "7", "0", "6", "3", "1", "1", "9", "2", "8", "2", "7", "9", "5",
      "5", "8", "5", "5", "1", "3", "3", "2", "9", "2", "7", "8", "3", "4", "3", "3",
      "8", "4", "0", "9", "3", "5", "1", "9", "7", "8", "0", "1", "5", "5", "3", "1",
      "2", "4", "6", "5", "9", "7", "2", "6", "3", "5", "7", "9", "5", "7", "4", "6",
      "2", "2", "7", "6", "6", "4", "6", "5", "2", "7", "2", "8", "2", "7", "2", "2",
      "0", "0", "5", "6", "3", "7", "4", "0", "0", "6", "4", "8", "5", "4", "9", "9",
      "9", "7", "7", "0", "9", "6", "5", "9", "9", "4", "7", "0", "4", "5", "4", "0",
      "2", "0", "8", "2", "8", "1", "6", "6", "2", "2", "6", "2", "3", "7", "8", "5",
      "7", "3", "9", "3", "4", "5", "0", "7", "3", "6", "3", "3", "9", "0", "0", "7",
      "9", "6", "7", "7", "6", "1", "9", "3", "0", "5", "7", "7", "5", "0", "6", "7",
      "4", "0", "1", "7", "6", "3", "2", "4", "6", "7", "3", "6", "0", "0", "9", "6",
      "8", "9", "5", "1", "3", "4", "0", "5", "3", "5", "5", "3", "7", "4", "5", "8",
      "5", "1", "6", "6", "6", "1", "1", "3", "4", "2", "2", "3", "7", "6", "6", "6",
      "7", "8", "6", "0", "4", "1", "6", "2", "1", "5", "9", "6", "8", "0", "4", "6",
      "1", "9", "1", "4", "4", "6", "7", "2", "9", "1", "8", "4", "0", "3", "0", "0",
      "5", "3", "0", "0", "5", "7", "5", "3", "0", "8", "4", "9", "0", "4", "8", "7",
      "6", "5", "3", "9", "1", "7", "1", "1", "3", "8", "6", "5", "9", "1", "6", "4",
      "6", "2", "3", "9", "5", "2", "4", "9", "1", "2", "6", "2", "3", "6", "5", "3",
      "8", "8", "1", "8", "7", "9", "6", "3", "6", "2", "3", "9", "3", "7", "3", "2",
      "8", "0", "4", "2", "3", "8", "9", "1", "0", "1", "8", "6", "7", "2", "3", "4",
      "8", "4", "9", "7", "6", "6", "8", "2", "3", "5", "0", "8", "9", "8", "6", "3",
      "3", "8", "8", "5", "8", "7", "9", "2", "5", "6", "2", "8", "3", "0", "2", "7",
      "5", "5", "9", "9", "5", "6", "5", "7", "5", "2", "4", "4", "5", "5", "5", "0",
      "7", "2", "5", "5", "1", "8", "9", "3", "1", "3", "6", "9", "0", "8", "3", "6",
      "2", "5", "4", "7", "7", "9", "1", "8", "6", "9", "4", "8", "6", "6", "7", "9",
      "9", "4", "9", "6", "8", "3", "2", "4", "0", "4", "9", "7", "0", "5", "8", "2",
      "1", "0", "2", "8", "5", "1", "3", "1", "8", "5", "4", "5", "1", "3", "9", "6",
      "2", "1", "3", "8", "3", "7", "7", "2", "2", "8", "2", "6", "1", "4", "5", "4",
      "3", "7", "6", "9", "3", "4", "1", "2", "5", "3", "2", "0", "9", "8", "5", "9",
      "1", "3", "2", "7", "6", "6", "7", "2", "3", "6", "3", "2", "8", "1", "2", "5">>

\* A float literal is [sign] mantissa [e|E [sign] digits], or inf / infinity /
\* nan in any case; float() ignores surrounding whitespace.
IsNegative(t) == Len(t) > 0 /\ Head(t) = "-"
Unsigned(t) == IF Len(t) > 0 /\ Head(t) \in {"+", "-"} THEN Tail(t) ELSE t

ExpPos(body) == IF Find(body, "e") # 0 THEN Find(body, "e") ELSE Find(body, "E")
Before(s, i) == IF i = 0 THEN s ELSE SubSeq(s, 1, i - 1)
After(s, i) == IF i = 0 THEN <<>> ELSE SubSeq(s, i + 1, Len(s))

\* The exponent spelled by digits ds; past eight digits every exponent already
\* gives inf or zero, as this one does.
ExpNat(ds) == IF Len(StripZeros(ds)) > 8 THEN 99999999 ELSE DigitsToNat(StripZeros(ds))

\* The value of the exponent part, [ok |-> FALSE] when it is malformed.
ExpValue(hasExp, expo) ==
    IF ~hasExp THEN [ok |-> TRUE, e |-> 0]
    ELSE IF Len(Unsigned(expo)) = 0 \/ ~AllDigits(Unsigned(expo)) THEN [ok |-> FALSE, e |-> 0]
    ELSE [ok |-> TRUE,
          e |-> IF IsNegative(expo) THEN 0 - ExpNat(DigitsOf(Unsigned(expo)))
                ELSE ExpNat(DigitsOf(Unsigned(expo)))]

\* The position of the leading significant digit of ip.fp * 10^e, counted
\* from the decimal point: the magnitude is 0.sig * 10^LeadPos, sig the
\* digits of ip.fp from the first non-zero one.
LeadPos(ip, fp, e) == Len(ip) + e - (Len(ip \o fp) - Len(StripZeros(ip \o fp)))

Overflows(sig, lead) ==
    Len(sig) > 0 /\ (lead > 309 \/ (lead = 309 /\ DigitsGeq(sig, HalfToInfinity)))

Underflows(sig, lead) ==
    Len(sig) = 0 \/ lead < 0 - 323 \/ (lead = 0 - 323 /\ DigitsGeq(HalfToZero, sig))

RoundDecimal(neg, ip, fp, e) ==
    IF Overflows(StripZeros(ip \o fp), LeadPos(ip, fp, e)) THEN [k |-> "inf"]
    ELSE [k |-> "num", neg |-> neg, ip |-> ip, fp |-> fp, e |-> e]

ParseDecimal(neg, ip, fp, ex) ==
    IF ~(AllDigits(ip) /\ AllDigits(fp) /\ Len(ip) + Len(fp) > 0 /\ ex.ok)
    THEN [k |-> "err"]
    ELSE RoundDecimal(neg, DigitsOf(ip), DigitsOf(fp), ex.e)

ParseMantissa(neg, mant, ex) ==
    ParseDecimal(neg, Before(mant, Find(mant, ".")), After(mant, Find(mant, ".")), ex)

ParseBody(neg, body) ==
    IF Lower(body) \in {<<"i", "n", "f">>, <<"i", "n", "f", "i", "n", "i", "t", "y">>}
    THEN [k |-> "inf"]
    ELSE IF Lower(body) = <<"n", "a", "n">> THEN [k |-> "nan"]
    ELSE ParseMantissa(neg, Before(body, ExpPos(body)),
                       ExpValue(ExpPos(body) # 0, After(body, ExpPos(body))))

ParseStripped(t) == ParseBody(IsNegative(t), Unsigned(t))

\* float(str): [k |-> "err"] (ValueError), [k |-> "nan"], [k |-> "inf"], or
\* [k |-> "num", neg, ip, fp, e]: the double nearest to (-1)^neg * ip.fp * 10^e.
ParseFloat(str) == ParseStripped(Strip(str))

\* Whether the float parsed as p is 0.0 or -0.0.
IsZeroFloat(p) ==
    p.k = "num" /\ Underflows(StripZeros(p.ip \o p.fp), LeadPos(p.ip, p.fp, p.e))

\* The digits of the whole part of ds with the decimal point after `point` digits.
WholeDigits(ds, point) ==
    IF point <= 0 \/ StripZeros(ds) = <<>> THEN <<>>
    ELSE IF point <= Len(ds) THEN SubSeq(ds, 1, point)
    ELSE ds \o [i \in 1..(point - Len(ds)) |-> "0"]

\* The digits after the decimal point; a magnitude under 0.1 reads as 0 here.
FracDigits(ds, point) ==
    IF point < 0 \/ point >= Len(ds) THEN <<>> ELSE SubSeq(ds, point + 1, Len(ds))

\* The digit of d at position i, 0 outside d
Pad(d, i) == IF i >= 1 /\ i <= Len(d) THEN d[i] ELSE 0

\* The number spelled by the k digits of d that end at position i
RECURSIVE Window(_, _, _)
Window(d, i, k) == IF k = 0 THEN 0 ELSE 10 * Window(d, i - 1, k - 1) + Pad(d, i)

\* The digits of 0.d / 2^k, 0 <= k <= 9, by long division: the remainder
\* carried into digit i is the number spelled by the k digits before it,
\* modulo 2^k (10^k is a multiple of 2^k).
DivPow2(d, k) ==
    SubSeq([i \in 1..(Len(d) + k) |->
               (10 * (Window(d, i - 1, k) % (2 ^ k)) + Pad(d, i)) \div (2 ^ k)],
           1, Len(d) + k)

\* The digits of the fraction 2^-j, j >= 1
RECURSIVE HalfPow(_)
HalfPow(j) == IF j <= 10 THEN DivPow2(<<5>>, j - 1) ELSE DivPow2(HalfPow(j - 9), 9)

DigitChar(n) ==
    CASE n = 0 -> "0" [] n = 1 -> "1" [] n = 2 -> "2" [] n = 3 -> "3" [] n = 4 -> "4"
      [] n = 5 -> "5" [] n = 6 -> "6" [] n = 7 -> "7" [] n = 8 -> "8" [] n = 9 -> "9"

\* The digits of the fraction 1 - 0.d, the last digit of d not zero
OneMinus(d) ==
    SubSeq([i \in 1..Len(d) |-> DigitChar(IF i = Len(d) THEN 10 - d[i] ELSE 9 - d[i])], 1, Len(d))

\* The number of bits of n: 0 for 0, k for 2^(k-1) <= n < 2^k
RECURSIVE BitLen(_)
BitLen(n) == IF n = 0 THEN 0 ELSE 1 + BitLen(n \div 2)

\* Doubles carry 53 significant bits: with k = BitLen(whole), the doubles
\* just under whole + 1 are 2^(k-53) apart, so a magnitude within half of
\* that, 2^-HalfBit(whole), of whole + 1 rounds to whole + 1.
HalfBit(whole) == 54 - BitLen(whole)

\* Whether whole.frac rounds up to the double whole + 1
RoundsUp(whole, frac) == DigitsGeq(frac, OneMinus(HalfPow(HalfBit(whole))))

Rounded(whole, frac) == IF RoundsUp(whole, frac) THEN whole + 1 ELSE whole

\* The magnitude of int(f) for the float parsed as p: the nearest double,
\* truncated toward zero.
TruncAbs(ds, point) == Rounded(DigitsToNat(WholeDigits(ds, point)), FracDigits(ds, point))

\* int(f) for a finite float f
TruncFloat(p) ==
    IF p.neg THEN 0 - TruncAbs(p.ip \o p.fp, Len(p.ip) + p.e)
    ELSE TruncAbs(p.ip \o p.fp, Len(p.ip) + p.e)

\* int(float(x)): Ok(int), or Raise of the exception Python raises.
IntOfParsed(p) ==
    CASE p.k = "err" -> Raise("ValueError")
      [] p.k = "nan" -> Raise("ValueError")
      [] p.k = "inf" -> Raise("OverflowError")
      [] p.k = "num" -> Ok(PyInt(TruncFloat(p)))

IntFloat(x) ==
    CASE x.t = "int" -> Ok(PyInt(x.i))
      [] x.t = "bool" -> Ok(PyInt(IF x.b THEN 1 ELSE 0))
      [] x.t = "float" -> IntOfParsed(ParseFloat(x.f))
      [] x.t = "str" -> IntOfParsed(ParseFloat(x.s))
      [] OTHER -> Raise("TypeError")

----------------------------------------------------------------------------
(* Python operators on values of any type *)

\* bool(v): the truth value Python gives v in `if v` / `not v`.
Truthy(v) ==
    CASE v.t = "null" -> FALSE
      [] v.t = "bool" -> v.b
      [] v.t = "int" -> v.i # 0
      [] v.t = "float" -> ~IsZeroFloat(ParseFloat(v.f))
      [] v.t = "str" -> Len(v.s) > 0
      [] v.t = "list" -> Len(v.l) > 0
      [] v.t = "dict" -> Len(v.d) > 0

\* `key in dict`, key the characters of a str
HasKey(dict, key) == \E i \in 1..Len(dict.d) : dict.d[i][1] = key

\* dict[key] for a key the dict has
At(dict, key) == dict.d[CHOOSE i \in 1..Len(dict.d) : dict.d[i][1] = key][2]

\* dict.get(key, default)
Get(dict, key, default) == IF HasKey(dict, key) THEN At(dict, key) ELSE default

\* `key in container`, key the characters of a str
PyIn(key, container) ==
    CASE container.t = "dict" -> Ok(HasKey(container, key))
      [] container.t = "list" ->
            Ok(\E i \in 1..Len(container.l) : container.l[i] = PyStr(key))
      [] container.t = "str" -> Ok(Contains(container.s, key))
      [] OTHER -> Raise("TypeError")

\* len(v)
PyLen(v) ==
    CASE v.t = "str" -> Ok(Len(v.s))
      [] v.t = "list" -> Ok(Len(v.l))
      [] v.t = "dict" -> Ok(Len(v.d))
      [] OTHER -> Raise("TypeError")

\* v[-1], for v of positive length
LastOf(v) ==
    CASE v.t = "list" -> Ok(v.l[Len(v.l)])
      [] v.t = "str" -> Ok(PyStr(<<v.s[Len(v.s)]>>))
      [] v.t = "dict" -> Raise("KeyError")
      [] OTHER -> Raise("TypeError")

----------------------------------------------------------------------------
(* process_members_data *)

\* The str literals of the source that are keys or are searched for, spelled
K_name == <<"n", "a", "m", "e">>
K_terms == <<"t", "e", "r", "m", "s">>
K_item == <<"i", "t", "e", "m">>
K_chamber == <<"c", "h", "a", "m", "b", "e", "r">>
K_district == <<"d", "i", "s", "t", "r", "i", "c", "t">>
K_bioguideId == <<"b", "i", "o", "g", "u", "i", "d", "e", "I", "d">>
K_partyName == <<"p", "a", "r", "t", "y", "N", "a", "m", "e">>
K_state == <<"s", "t", "a", "t", "e">>
K_url == <<"u", "r", "l">>
K_members == <<"m", "e", "m", "b", "e", "r", "s">>
K_pagination == <<"p", "a", "g", "i", "n", "a", "t", "i", "o", "n">>
K_count == <<"c", "o", "u", "n", "t">>
K_next == <<"n", "e", "x", "t">>
SenateChars == <<"S", "e", "n", "a", "t", "e">>

\* datetime.now().isoformat(): the clock reading is one opaque token
LastUpdated == PyStr(<<"n", "o", "w">>)

\* name_parts / last_name / first_name
NameParts(name) == Split(name, ",")
LastName(name) == Strip(NameParts(name)[1])
FirstName(name) ==
    IF Len(NameParts(name)) > 1 THEN Strip(NameParts(name)[2]) ELSE <<>>

\* member['terms']['item'][-1] once len(member['terms']['item']) was taken
LastItem(item, length) ==
    IF ~length.ok THEN length
    ELSE IF length.val > 0 THEN LastOf(item) ELSE Ok(None)

\* The rest of the condition once `'item' in member['terms']` was evaluated
TermOf(terms, has) ==
    IF ~has.ok THEN has
    ELSE IF ~has.val THEN Ok(None)
    ELSE IF terms.t # "dict" THEN Raise("TypeError")
    ELSE LastItem(At(terms, K_item), PyLen(At(terms, K_item)))

\* current_term: the last entry of member['terms']['item'], None without one
CurrentTerm(member) ==
    IF ~HasKey(member, K_terms) THEN Ok(None)
    ELSE TermOf(At(member, K_terms), PyIn(K_item, At(member, K_terms)))

\* chamber = current_term.get('chamber', '') if current_term else ''
Chamber(current_term) ==
    IF ~Truthy(current_term) THEN Ok(EmptyStr)
    ELSE IF current_term.t # "dict" THEN Raise("AttributeError")
    ELSE Ok(Get(current_term, K_chamber, EmptyStr))

\* is_senator = 'Senate' in chamber
IsSenator(chamber) == PyIn(SenateChars, chamber)

\* try: district = int(float(district)) except (ValueError, TypeError): district = None
Coerce(coerced) ==
    IF coerced.ok THEN coerced
    ELSE IF coerced.exc \in {"ValueError", "TypeError"} THEN Ok(None)
    ELSE coerced

\* The district as upstream sent it, never coerced.
DistrictRaw(member) == Ok(Get(member, K_district, None))

\* district = member.get('district'), coerced when it is not None
District(member) ==
    IF Get(member, K_district, None) = None THEN Ok(None)
    ELSE Coerce(IntFloat(At(member, K_district)))

\* The keys of member_data, with 'district' only for representatives.
MemberData(member, name, current_term, chamber, is_senator, district) ==
    LET base == [id |-> Get(member, K_bioguideId, EmptyStr),
                 name |-> PyStr(Strip(name)),
                 firstName |-> PyStr(FirstName(name)),
                 lastName |-> PyStr(LastName(name)),
                 party |-> Get(member, K_partyName, EmptyStr),
                 state |-> Get(member, K_state, EmptyStr),
                 chamber |-> chamber,
                 title |-> IF is_senator THEN "Senator" ELSE "Representative",
                 url |-> Get(member, K_url, EmptyStr),
                 inOffice |-> PyBool(current_term # None),
                 lastUpdated |-> LastUpdated]
    IN IF is_senator THEN base ELSE base @@ ("district" :> district)

\* One iteration of the loop over data['members'], statement by statement:
\* Ok(member_data) or the exception that leaves process_members_data.
WithDistrict(member, name, current_term, chamber, is_senator, district) ==
    IF ~district.ok THEN district
    ELSE Ok(MemberData(member, name, current_term, chamber, is_senator, district.val))

WithSenator(member, name, current_term, chamber, is_senator) ==
    IF ~is_senator.ok THEN is_senator
    ELSE WithDistrict(member, name, current_term, chamber, is_senator.val,
                      District(member))

WithChamber(member, name, current_term, chamber) ==
    IF ~chamber.ok THEN chamber
    ELSE WithSenator(member, name, current_term, chamber.val, IsSenator(chamber.val))

WithTerm(member, name, current_term) ==
    IF ~current_term.ok THEN current_term
    ELSE WithChamber(member, name, current_term.val, Chamber(current_term.val))

WithName(member, name) ==
    IF name.t # "str" THEN Raise("AttributeError")
    ELSE WithTerm(member, name.s, CurrentTerm(member))

ProcessMember(member) ==
    IF member.t # "dict" THEN Raise("AttributeError")
    ELSE WithName(member, Get(member, K_name, EmptyStr))

\* The loop over data['members']: the first exception raised ends it.
ProcessAll(members) ==
    LET results == [i \in 1..Len(members) |-> ProcessMember(members[i])]
        failing == {i \in 1..Len(members) : ~results[i].ok}
    IN IF failing # {}
       THEN results[CHOOSE i \in failing : \A j \in failing : i <= j]
       ELSE Ok([i \in 1..Len(members) |-> results[i].val])

\* process_members_data(data): Ok(list of member_data) or the exception raised.
\* data is None or the dict get_congress_members returns.
process_members_data(data) ==
    IF ~Truthy(data) \/ ~HasKey(data, K_members) THEN Ok(<<>>)
    ELSE ProcessAll(At(data, K_members).l)

----------------------------------------------------------------------------
(* The upstream source *)

\* limit = 250, the page size of every request
Limit == 250

\* The number of requests one run may issue in the model.
MaxRequests == 3

\* The record the source holds at position i (1-based), in one of three shapes.
Shapes == {"rep", "sen", "bad"}

TermsOf(chamberChars) ==
    PyDict(<< <<K_item, PyList(<<PyDict(<< <<K_chamber, PyStr(chamberChars)>> >>)>>)>> >>)

Member(shape, i) ==
    CASE shape = "rep" ->
            PyDict(<< <<K_district, PyInt(i)>>,
                      <<K_terms, TermsOf(<<"H", "o", "u", "s", "e">>)>> >>)
      [] shape = "sen" ->
            PyDict(<< <<K_district, PyInt(i)>>, <<K_terms, TermsOf(SenateChars)>> >>)
      [] shape = "bad" ->
            PyDict(<< <<K_district, PyInt(i)>>, <<K_name, None>> >>)

\* The records at positions from+1 .. from+n.
Page(shape, from, n) == [j \in 1..n |-> Member(shape, from + j)]

Url == PyStr(<<"u">>)

\* The `pagination` values a response may carry: null, objects with and
\* without `count` and `next`, and values that are not objects.
Paginations ==
    {None, EmptyDict, PyDict(<< <<K_count, PyInt(1)>> >>), PyInt(5), PyStr(<<"x">>)}
    \cup {PyDict(<< <<K_next, nx>> >>) : nx \in {None, EmptyStr, Url}}
    \cup {PyDict(<< <<K_count, PyInt(1)>>, <<K_next, nx>> >>) : nx \in {None, EmptyStr, Url}}

PageSizes == {0, 1, 10, Limit - 1, Limit}

\* The bodies response.json() may return that are not an object whose
\* `members` is a list of records of the source: values that are not objects,
\* and objects whose `members` is null, a number, an object, a string or a list
\* of something else.
Body(members) == PyDict(<< <<K_members, members>> >>)

OtherBodies ==
    {None, PyList(<<>>), PyStr(<<"x">>), PyInt(5),
     Body(None),
     Body(PyInt(5)),
     Body(EmptyDict),
     Body(PyDict(<< <<K_url, PyInt(1)>> >>)),
     Body(PyDict(<< <<K_next, PyInt(1)>>, <<K_count, PyInt(2)>> >>)),
     Body(PyStr(<<"a", "b">>)),
     Body(PyList(<<PyInt(5)>>))}

\* What the source may answer: a failed request (transport error or HTTP error
\* status); a JSON object with or without `members`, a list of n records of the
\* source, and `pagination`; or another JSON body.
Responses ==
    {[kind |-> "fail", hasMembers |-> FALSE, n |-> 0, hasPagination |-> FALSE,
      pagination |-> None, body |-> None]}
    \cup {[kind |-> "ok", hasMembers |-> FALSE, n |-> 0, hasPagination |-> hp,
           pagination |-> None, body |-> None] : hp \in BOOLEAN}
    \cup {[kind |-> "ok", hasMembers |-> TRUE, n |-> n, hasPagination |-> FALSE,
           pagination |-> None, body |-> None] : n \in PageSizes}
    \cup {[kind |-> "ok", hasMembers |-> TRUE, n |-> n, hasPagination |-> TRUE,
           pagination |-> pg, body |-> None] : n \in PageSizes, pg \in Paginations}
    \cup {[kind |-> "json", hasMembers |-> FALSE, n |-> 0, hasPagination |-> FALSE,
           pagination |-> None, body |-> b] : b \in OtherBodies}

\* No request was answered yet.
NoResponse ==
    [kind |-> "none", hasMembers |-> FALSE, n |-> 0, hasPagination |-> FALSE,
     pagination |-> None, body |-> None]

\* What the history keeps of an answer: whether the request failed, the number
\* of records of the source it carried and whether it carried `pagination`.
Summary(resp) ==
    [failed |-> resp.kind = "fail", n |-> resp.n, hasPagination |-> resp.hasPagination]

\* response.json() of an answered request at offset `from`.
DataOf(resp, shape, from) ==
    IF resp.kind = "json" THEN resp.body
    ELSE PyDict((IF resp.hasMembers
                 THEN << <<K_members, PyList(Page(shape, from, resp.n))>> >> ELSE <<>>)
                \o (IF resp.hasPagination
                    THEN << <<K_pagination, resp.pagination>> >> ELSE <<>>))

\* The answer of a source that holds `total` records and serves them by offset.
OffsetResponse(total, from, hp, pg) ==
    [kind |-> "ok", hasMembers |-> TRUE,
     n |-> IF total - from <= 0 THEN 0
           ELSE IF total - from < Limit THEN total - from ELSE Limit,
     hasPagination |-> hp, pagination |-> IF hp THEN pg ELSE None, body |-> None]

----------------------------------------------------------------------------
(* get_congress_members *)

\* print(f"Members in this batch: {len(data.get('members', []))}"): the length
\* printed, or the exception raised when data is not an object or its
\* `members` has no length.
BatchLen(data) ==
    IF data.t # "dict" THEN Raise("AttributeError")
    ELSE PyLen(Get(data, K_members, PyList(<<>>)))

\* if not data or 'members' not in data or len(data['members']) == 0: break
\* Ok(TRUE) when it breaks out of the loop, Ok(FALSE) when it does not, Raise
\* when evaluating it raises.
NoMembers(data) ==
    IF ~Truthy(data) THEN Ok(TRUE)
    ELSE IF ~PyIn(K_members, data).ok THEN PyIn(K_members, data)
    ELSE IF ~PyIn(K_members, data).val THEN Ok(TRUE)
    ELSE IF data.t # "dict" THEN Raise("TypeError")
    ELSE IF ~PyLen(At(data, K_members)).ok THEN PyLen(At(data, K_members))
    ELSE Ok(PyLen(At(data, K_members)).val = 0)

\* What all_members.extend(v) appends for a v that has a length: the items of
\* a list, the characters of a str, the keys of a dict in insertion order.
Items(v) ==
    CASE v.t = "list" -> v.l
      [] v.t = "str" -> [i \in 1..Len(v.s) |-> PyStr(<<v.s[i]>>)]
      [] v.t = "dict" -> [i \in 1..Len(v.d) |-> PyStr(v.d[i][1])]

\* if offset == 0 and len(data['members']) > 0: ... data['members'][0]
\* (reached with `members` not empty): an object has no key 0.
SamplePrint(data, off) ==
    IF off = 0 /\ At(data, K_members).t = "dict" THEN Raise("KeyError") ELSE Ok(TRUE)

\* The pagination check: Ok(TRUE) when it breaks out of the loop, Ok(FALSE)
\* when it does not, Raise when evaluating it raises.
PaginationStops(data) ==
    IF ~HasKey(data, K_pagination) THEN Ok(FALSE)
    ELSE LET pg == At(data, K_pagination)
             hasCount == PyIn(K_count, pg)
             hasNext == PyIn(K_next, pg)
         IN IF ~hasCount.ok THEN hasCount
            ELSE IF ~(hasCount.val /\ hasNext.val) THEN Ok(FALSE)
            ELSE IF pg.t # "dict" THEN Raise("TypeError")
            ELSE Ok(~Truthy(At(pg, K_next)))

\* if len(data['members']) < limit: break (members: the items of data['members'])
ShortPage(members) == Len(members) < Limit

\* The page replaces what was accumulated.
ExtendReplace(members, page) == page

\* all_members.extend(data['members'])
Extend(members, page) == members \o page

\* The offset never advances.
NextOffsetStuck(off) == off

\* offset += limit
NextOffset(off) == off + Limit

\* Only an unset key counts as missing.
KeyMissingUnsetOnly(key) == key = None

\* if not api_key: raise ValueError(...)
KeyMissing(key) == ~Truthy(key)

\* The records fetched before the failure are returned.
FailureResultPartial(members) == PyDict(<< <<K_members, PyList(members)>> >>)

\* except requests.exceptions.RequestException as e: ... return None
FailureResult(members) == None

\* return {'members': all_members}
Returned(members) == PyDict(<< <<K_members, PyList(members)>> >>)

\* The records the function returned, <<>> when it returned None.
MembersOf(data) == IF data = None THEN <<>> ELSE At(data, K_members).l

\* One iteration of the loop on the body `data` at offset off, from the print
\* of the batch size to the end of the loop body: where it leaves the function
\* ("crashed" with exc, "returned" by break, or "fetch" for the next
\* iteration), and whether all_members was extended before that.
Iteration(data, off) ==
    IF ~BatchLen(data).ok
    THEN [to |-> "crashed", exc |-> BatchLen(data).exc, extended |-> FALSE]
    ELSE IF ~NoMembers(data).ok
    THEN [to |-> "crashed", exc |-> NoMembers(data).exc, extended |-> FALSE]
    ELSE IF NoMembers(data).val
    THEN [to |-> "returned", exc |-> "", extended |-> FALSE]
    ELSE IF ~SamplePrint(data, off).ok
    THEN [to |-> "crashed", exc |-> SamplePrint(data, off).exc, extended |-> TRUE]
    ELSE IF ~PaginationStops(data).ok
    THEN [to |-> "crashed", exc |-> PaginationStops(data).exc, extended |-> TRUE]
    ELSE IF PaginationStops(data).val \/ ShortPage(Items(At(data, K_members)))
    THEN [to |-> "returned", exc |-> "", extended |-> TRUE]
    ELSE [to |-> "fetch", exc |-> "", extended |-> TRUE]

\* One iteration of the `while True` loop, the source answering resp.
Request(resp) ==
    /\ pc = "fetch"
    /\ Len(requests) < MaxRequests
    /\ requests' = Append(requests, offset)
    /\ served' = Append(served, Summary(resp))
    /\ response' = resp
    /\ UNCHANGED <<api_key, source, processed, files, out>>
    /\ IF resp.kind = "fail"
       THEN \* except requests.exceptions.RequestException: return None
            /\ pc' = "returned"
            /\ raw_data' = FailureResult(all_members)
            /\ UNCHANGED <<offset, all_members, exc>>
       ELSE \E json \in {DataOf(resp, source.shape, offset)} :
            \E it \in {Iteration(json, offset)} :
               /\ pc' = it.to
               /\ exc' = IF it.to = "crashed" THEN it.exc ELSE exc
               /\ all_members' = IF it.extended
                                 THEN Extend(all_members, Items(At(json, K_members)))
                                 ELSE all_members
               /\ raw_data' = IF it.to = "returned" THEN Returned(all_members') ELSE raw_data
               /\ offset' = IF it.to = "fetch" THEN NextOffset(offset) ELSE offset

----------------------------------------------------------------------------
(* main *)

\* congress_members_<today>.json/.csv and congress_members_latest.json/.csv,
\* written by save_to_json and save_to_csv in a run where pandas (imported at
\* the top of the module) is installed and data/ is writable.
FileNames == {"dated.json", "dated.csv", "latest.json", "latest.csv"}

\* if processed_data: (the four files are written only then)
HasData(processed_data) == Len(processed_data) > 0

\* What the environment may hold for CONGRESS_GOV_API_KEY.
ApiKeys == {None, EmptyStr, PyStr(<<"k">>)}

\* main up to the first request: the API key is checked before any request.
MainStart ==
    /\ pc = "main"
    /\ IF KeyMissing(api_key)
       THEN pc' = "crashed" /\ exc' = "ValueError"
       ELSE pc' = "fetch" /\ exc' = exc
    /\ UNCHANGED <<api_key, source, offset, all_members, requests, served, response,
                   raw_data, processed, files, out>>

\* main after get_congress_members returned raw_data.
MainFinish ==
    /\ pc = "returned"
    /\ UNCHANGED <<api_key, source, offset, all_members, requests, served, response, raw_data>>
    /\ IF Truthy(raw_data)
       THEN \E r \in {process_members_data(raw_data)} :
               IF ~r.ok
               THEN /\ pc' = "crashed"
                    /\ exc' = r.exc
                    /\ processed' = [called |-> TRUE, val |-> <<>>]
                    /\ UNCHANGED <<files, out>>
               ELSE /\ pc' = "done"
                    /\ processed' = [called |-> TRUE, val |-> r.val]
                    /\ files' = IF HasData(r.val) THEN FileNames ELSE files
                    /\ out' = IF HasData(r.val) THEN "Data saved" ELSE "No data to process"
                    /\ UNCHANGED exc
       ELSE /\ pc' = "done"
            /\ out' = "Failed to fetch data"
            /\ UNCHANGED <<processed, files, exc>>

Init ==
    /\ pc = "main"
    /\ api_key \in ApiKeys
    /\ source \in {[kind |-> "any", shape |-> sh, total |-> 0] : sh \in Shapes}
    /\ offset = 0
    /\ all_members = <<>>
    /\ requests = <<>>
    /\ served = <<>>
    /\ response = NoResponse
    /\ raw_data = None
    /\ processed = [called |-> FALSE, val |-> <<>>]
    /\ files = {}
    /\ out = ""
    /\ exc = ""

Next ==
    \/ MainStart
    \/ \E resp \in Responses : Request(resp)
    \/ MainFinish

Spec == Init /\ [][Next]_vars

----------------------------------------------------------------------------
(* The fetch against a source that holds finitely many records, serves them *)
(* by offset and never fails.                                               *)

Totals == {k * Limit + r : k \in 0..(MaxRequests - 1), r \in {0, 1, 10, Limit - 1}}

InitOffset ==
    /\ pc = "main"
    /\ api_key = PyStr(<<"k">>)
    /\ source \in {[kind |-> "offset", shape |-> "rep", total |-> t] : t \in Totals}
    /\ offset = 0
    /\ all_members = <<>>
    /\ requests = <<>>
    /\ served = <<>>
    /\ response = NoResponse
    /\ raw_data = None
    /\ processed = [called |-> FALSE, val |-> <<>>]
    /\ files = {}
    /\ out = ""
    /\ exc = ""

RequestOffset ==
    \E hp \in BOOLEAN, pg \in {p \in Paginations : p.t = "dict"} :
        Request(OffsetResponse(source.total, offset, hp, pg))

\* main up to the return of get_congress_members.
FetchNext ==
    \/ MainStart
    \/ RequestOffset

\* The run is one sequential process: a step that can be taken is taken.
\* Every step changes pc or requests.
SpecOffset == InitOffset /\ [][FetchNext]_vars /\ WF_<<pc, requests>>(FetchNext)

----------------------------------------------------------------------------
(* process_members_data applied to raw records of every shape *)

RawNames ==
    {None, PyInt(7),
     PyStr(<<>>),
     PyStr(<<"C", "h", "e", "r">>),
     PyStr(<<",">>),
     PyStr(<<" ", "D", "o", "e", " ", ",", "A", "l", " ">>),
     PyStr(<<"\f", "D", "o", "e", ",", "\f", "A", "l", "\r">>),
     PyStr(<<"S", "m", "i", "t", "h", ",", " ", "J", "o", "h", "n", " ", "Q", ".">>),
     PyStr(<<"C", "a", "s", "e", "y", ",", " ", "B", "o", "b", ",", " ", "J", "r", ".">>)}

House == PyStr(<<"H", "o", "u", "s", "e">>)
Senate == PyStr(SenateChars)
TermIn(chamber) == PyDict(<< <<K_chamber, chamber>> >>)

RawTerms ==
    {None,
     EmptyDict,
     PyList(<<TermIn(Senate)>>),
     PyDict(<< <<K_item, None>> >>),
     PyDict(<< <<K_item, TermIn(Senate)>> >>),
     PyDict(<< <<K_item, PyList(<<>>)>> >>),
     PyDict(<< <<K_item, PyList(<<PyStr(<<"x">>)>>)>> >>),
     PyDict(<< <<K_item, PyList(<<EmptyDict>>)>> >>),
     PyDict(<< <<K_item, PyList(<<TermIn(None)>>)>> >>),
     PyDict(<< <<K_item, PyList(<<PyFloat(<<"0", ".", "0">>)>>)>> >>),
     PyDict(<< <<K_item, PyList(<<TermIn(PyStr(<<"s", "e", "n", "a", "t", "e">>))>>)>> >>),
     PyDict(<< <<K_item, PyList(<<TermIn(House)>>)>> >>),
     PyDict(<< <<K_item, PyList(<<TermIn(Senate)>>)>> >>),
     PyDict(<< <<K_item, PyList(<<TermIn(House), TermIn(Senate)>>)>> >>),
     PyDict(<< <<K_item, PyList(<<TermIn(Senate), TermIn(House)>>)>> >>)}

RawDistricts ==
    {None, PyInt(3), PyBool(TRUE), PyFloat(<<"3", ".", "7">>), PyList(<<>>),
     PyStr(<<>>),
     PyStr(<<"7">>),
     PyStr(<<"3", ".", "0">>),
     PyStr(<<"-", "2", ".", "5">>),
     PyStr(<<"1", "e", "1">>),
     PyStr(<<"1", "_", "0">>),
     PyStr(<<"4", ".", "9", "9", "9", "9", "9", "9", "9", "9", "9", "9", "9", "9", "9", "9",
             "9", "9">>),
     PyStr(<<"1", ".", "8", "e", "3", "0", "8">>),
     PyStr(<<"a", "b", "c">>),
     PyStr(<<"n", "a", "n">>),
     PyStr(<<"i", "n", "f">>)}

RawChambers == {None, House, Senate}

\* The item key: value, or nothing when the record lacks the key
Field(key, present, value) == IF present THEN << <<key, value>> >> ELSE <<>>

RawMembers ==
    {PyDict(Field(K_name, hn, n) \o Field(K_terms, ht, t)
            \o Field(K_district, hd, d) \o Field(K_chamber, hc, c)) :
        hn \in BOOLEAN, n \in RawNames, ht \in BOOLEAN, t \in RawTerms,
        hd \in BOOLEAN, d \in RawDistricts, hc \in BOOLEAN, c \in RawChambers}

\* A senator with a district upstream, a representative with a non-numeric
\* district, and a record whose name is null.
Samples ==
    {PyDict(<< <<K_name, PyStr(<<"A", ",", "B">>)>>, <<K_district, PyInt(3)>>,
               <<K_terms, PyDict(<< <<K_item, PyList(<<TermIn(Senate)>>)>> >>)>> >>),
     PyDict(<< <<K_district, PyStr(<<"a", "b", "c">>)>>,
               <<K_terms, PyDict(<< <<K_item, PyList(<<TermIn(House)>>)>> >>)>> >>),
     PyDict(<< <<K_name, None>> >>)}

NormInputs ==
    {<<>>} \cup {<<m>> : m \in RawMembers} \cup {<<a, b>> : a \in Samples, b \in Samples}

InitNorm ==
    /\ pc = "process"
    /\ api_key = PyStr(<<"k">>)
    /\ source = [kind |-> "any", shape |-> "rep", total |-> 0]
    /\ offset = 0
    /\ all_members \in NormInputs
    /\ requests = <<>>
    /\ served = <<>>
    /\ response = NoResponse
    /\ raw_data = Returned(all_members)
    /\ processed = [called |-> FALSE, val |-> <<>>]
    /\ files = {}
    /\ out = ""
    /\ exc = ""

\* processed_data = process_members_data(raw_data)
Process ==
    /\ pc = "process"
    /\ \E r \in {process_members_data(raw_data)} :
        IF r.ok
        THEN pc' = "processed" /\ processed' = [called |-> TRUE, val |-> r.val]
             /\ exc' = exc
        ELSE pc' = "crashed" /\ processed' = [called |-> TRUE, val |-> <<>>]
             /\ exc' = r.exc
    /\ UNCHANGED <<api_key, source, offset, all_members, requests, served, response,
                   raw_data, files, out>>

SpecNorm == InitNorm /\ [][Process]_vars

----------------------------------------------------------------------------
(* Properties of the fetch and of main, checked under Spec *)

FullPlain(s) == ~s.failed /\ s.n = Limit /\ ~s.hasPagination
ShortPlain(s) == ~s.failed /\ s.n >= 1 /\ s.n < Limit /\ ~s.hasPagination

\* The source answered k full pages and then one short page, none with
\* pagination metadata.
FullThenShort ==
    /\ Len(served) >= 1
    /\ \A i \in 1..(Len(served) - 1) : FullPlain(served[i])
    /\ ShortPlain(served[Len(served)])

\* The first n records of the source, in upstream order.
Upstream(n) == Page(source.shape, 0, n)

\* C1: after k full pages and one short page without pagination metadata the
\* fetch has returned the concatenation of the k+1 pages in upstream order, it
\* issued exactly k+1 requests, the i-th at offset (i-1)*limit, and a short page
\* is always the last one answered.
C1_PaginationTermination ==
    /\ \A i \in 1..Len(served) : ShortPlain(served[i]) => i = Len(served)
    /\ FullThenShort =>
        /\ pc # "fetch"
        /\ raw_data = Returned(Upstream((Len(served) - 1) * Limit + served[Len(served)].n))
        /\ requests = [i \in 1..Len(served) |-> (i - 1) * Limit]

\* Pages of 250, 250 and 10 records gave 510 records in 3 requests.
C1_Witness ==
    /\ FullThenShort
    /\ Len(served) = 3
    /\ served[3].n = 10
    /\ pc = "done"
    /\ Len(requests) = 3
    /\ Len(MembersOf(raw_data)) = 2 * Limit + 10

AnyFailed == \E i \in 1..Len(served) : served[i].failed

\* C2: once a page request failed, the fetch yields None whatever was fetched
\* before, process_members_data is never called and no file is written.
C2_AllOrNothing ==
    AnyFailed =>
        /\ pc \in {"returned", "done"}
        /\ raw_data = None
        /\ ~processed.called
        /\ files = {}
        /\ pc = "done" => out = "Failed to fetch data"

\* The third request failed after two full pages were fetched.
C2_Witness ==
    /\ AnyFailed
    /\ Len(served) = 3
    /\ Len(all_members) = 2 * Limit
    /\ pc = "done"
    /\ files = {}

\* C3: with the API key unset or empty, no request is ever issued and no file
\* is written: the run ends with the ValueError raised before the first request.
C3_NoKeyNoRequest ==
    api_key \in {None, EmptyStr} =>
        /\ pc \in {"main", "crashed"}
        /\ requests = <<>>
        /\ files = {}
        /\ pc = "crashed" => exc = "ValueError"

C3_Witness == api_key = EmptyStr /\ pc = "crashed" /\ exc = "ValueError" /\ requests = <<>>

\* The first page came back without records: its body has no `members` key,
\* or its `members` is an empty list.
FirstPageEmpty ==
    /\ Len(served) = 1
    /\ response.kind \in {"ok", "json"}
    /\ \/ DataOf(response, source.shape, 0).t # "dict"
       \/ ~HasKey(DataOf(response, source.shape, 0), K_members)
       \/ At(DataOf(response, source.shape, 0), K_members) = PyList(<<>>)

\* C4: when the first page has no records the fetch stops after that one
\* request with an empty collection, and main writes no file and reports
\* "No data to process".
C4_EmptyPageTermination ==
    FirstPageEmpty =>
        /\ pc \in {"returned", "done"}
        /\ requests = <<0>>
        /\ raw_data = Returned(<<>>)
        /\ files = {}
        /\ pc = "done" => processed.called /\ out = "No data to process"

\* The latest answer has records and a pagination object whose `next` is
\* null or empty.
SaysNoNext ==
    /\ response.kind = "ok"
    /\ response.hasMembers
    /\ response.n >= 1
    /\ response.hasPagination
    /\ response.pagination.t = "dict"
    /\ HasKey(response.pagination, K_next)
    /\ ~Truthy(At(response.pagination, K_next))

\* The fetch returned with the latest page as the end of the collection.
KeptAndStopped ==
    /\ pc # "fetch"
    /\ raw_data = Returned(Upstream(offset + response.n))

\* C8: a pagination object whose `next` is null or empty stops the fetch after
\* any page with records, full pages included, whatever else the object holds.
C8_StopsOnNoNext == SaysNoNext => KeptAndStopped

----------------------------------------------------------------------------
(* Termination of the fetch, checked under SpecOffset *)

\* C10: against a source that serves finitely many records by offset and never
\* fails, the fetch eventually returns.
C10_FetchTerminates == <>(pc = "returned" /\ raw_data # None)

\* Two full pages exhausted the source; the third request got the empty page.
C10_Witness ==
    /\ source.kind = "offset"
    /\ source.total = 2 * Limit
    /\ pc = "returned"
    /\ requests = <<0, Limit, 2 * Limit>>
    /\ response.n = 0
    /\ Len(MembersOf(raw_data)) = source.total

----------------------------------------------------------------------------
(* Properties of process_members_data, checked under SpecNorm *)

\* C5: every record produced is titled "Senator" or "Representative"; a
\* senator's district is absent or null, a representative's is an integer or null.
C5_DistrictInvariant ==
    pc = "processed" =>
        \A i \in 1..Len(processed.val) :
            /\ processed.val[i].title \in {"Senator", "Representative"}
            /\ processed.val[i].title = "Senator" =>
                \/ "district" \notin DOMAIN processed.val[i]
                \/ processed.val[i].district = None
            /\ processed.val[i].title = "Representative" =>
                \/ "district" \notin DOMAIN processed.val[i]
                \/ processed.val[i].district.t \in {"int", "null"}

\* A senator whose upstream record had a district, and a representative whose
\* upstream district was "abc".
C5_Witness ==
    /\ pc = "processed"
    /\ Len(processed.val) = 2
    /\ At(all_members[1], K_district) = PyInt(3)
    /\ processed.val[1].title = "Senator"
    /\ "district" \notin DOMAIN processed.val[1]
    /\ At(all_members[2], K_district) = PyStr(<<"a", "b", "c">>)
    /\ processed.val[2].title = "Representative"
    /\ processed.val[2].district = None

\* C6: process_members_data never raises, and emits one record per raw record.
C6_NormalizerTotal ==
    /\ pc # "crashed"
    /\ pc = "processed" => Len(processed.val) = Len(all_members)

\* C7: lastName is the trimmed text before the first comma of `name`, firstName
\* the trimmed whole remainder after it; without a comma the whole name is
\* lastName and firstName is empty.
C7_NameSplitOnce ==
    pc = "processed" =>
        \A i \in 1..Len(processed.val) :
            HasKey(all_members[i], K_name) =>
                /\ processed.val[i].lastName =
                       PyStr(Strip(Before(At(all_members[i], K_name).s,
                                          Find(At(all_members[i], K_name).s, ","))))
                /\ processed.val[i].firstName =
                       PyStr(Strip(After(At(all_members[i], K_name).s,
                                         Find(At(all_members[i], K_name).s, ","))))

\* The chamber of the last entry of the term history, "" without one.
TermChamber(member) == Chamber(CurrentTerm(member).val).val

\* C9: chamber is the flat chamber field when the record has one, else the
\* chamber of the current term, else ""; the title is "Senator" exactly when
\* the chamber contains "Senate".
C9_ChamberPrecedence ==
    pc = "processed" =>
        \A i \in 1..Len(processed.val) :
            /\ processed.val[i].chamber =
                   IF HasKey(all_members[i], K_chamber)
                   THEN At(all_members[i], K_chamber)
                   ELSE TermChamber(all_members[i])
            /\ processed.val[i].title = "Senator" <=>
                   Contains(processed.val[i].chamber.s, SenateChars)

====
